---- MODULE Spec2Model ----
(***************************************************************************)
(* Model of the pool-slot booker: class Booker of src/src/booker.py        *)
(* (construction = login + SSO exchange, then book() = events query,       *)
(* match, basket add_item, basket checkout), Lane of src/src/lane.py and   *)
(* get_logger of src/src/log.py; and main() of src/main.py, which runs the  *)
(* same flow through the copy of Booker and Lane that src/main.py holds.   *)
(*                                                                         *)
(* One action is one step of the sequential program: the code between two  *)
(* HTTP requests, with the request it ends in and the parsing of the       *)
(* response.  The provider's answers are the inputs, drawn with \E.        *)
(* `sent` (the requests put on the wire) and `log` (the records the        *)
(* handlers emitted) are the observable history of a run.                  *)
(***************************************************************************)
EXTENDS Integers, Sequences, FiniteSets, TLC

\* ------------------------------------------------------------------ bounds
\* Longest events list the provider returns.
MaxEvents == 2
\* Number of book() calls made on one Booker instance.
MaxBooks == 2

\* ------------------------------------------------------------- input sets
Email == "swimmer@example.org"
Passwords == {"hunter2", "s3cret"}
CsrfTokens == {"csrfA", "csrfB"}
\* config.py is not part of the sources; the identity headers are opaque.
APP_ID == "app-id"
APP_KEY == "app-key"

\* "now" in Europe/London, as a day number.
TodayChoices == {100}
DaysAheadChoices == {8}
StartChoices == {800, 900}
LaneChoices == {"MEDIUM", "FAST"}

\* A description is a string: a sequence of one-character strings.
DescSlowLane == <<"S", "l", "o", "w", " ", "l", "a", "n", "e">>
DescMEDIUMLane == <<"M", "E", "D", "I", "U", "M", " ", "l", "a", "n", "e">>
DescMedium == <<"m", "e", "d", "i", "u", "m">>
DescAquaFit == <<"A", "q", "u", "a", " ", "f", "i", "t">>
DescEmpty == <<>>
DescFastMixed == <<"f", "A", "s", "T", " ", "x">>
DescSlowly == <<"s", "l", "o", "w", "l", "y">>
DescLeadingSpace == <<" ", "f", "a", "s", "t">>
DescUnknown == <<"u", "n", "k", "n", "o", "w", "n">>

\* The descriptions _transform is applied to on its own.
Descriptions ==
    { DescSlowLane, DescMEDIUMLane, DescMedium, DescAquaFit, DescEmpty,
      DescFastMixed, DescSlowly, DescLeadingSpace, DescUnknown }

\* datetime.hour and datetime.minute of an ISO datetime.
Hours == 0..23
Minutes == 0..59

\* The raw slots _transform is applied to on its own.
RawSlots ==
    { [datetime |-> [hour |-> h, minute |-> mi], description |-> d,
       id |-> 1, event_chain_id |-> 11] : h \in Hours, mi \in Minutes, d \in Descriptions }

\* The events the provider may list (raw slots of the events response).
RawEvents ==
    { [datetime |-> [hour |-> 8, minute |-> 0], description |-> DescSlowLane,
       id |-> 1, event_chain_id |-> 11],
      [datetime |-> [hour |-> 9, minute |-> 0], description |-> DescMEDIUMLane,
       id |-> 2, event_chain_id |-> 12],
      [datetime |-> [hour |-> 9, minute |-> 0], description |-> DescMedium,
       id |-> 3, event_chain_id |-> 13],
      [datetime |-> [hour |-> 8, minute |-> 5], description |-> DescAquaFit,
       id |-> 4, event_chain_id |-> 14] }

EventLists == UNION { [1..n -> RawEvents] : n \in 0..MaxEvents }

\* Bodies of the SSO exchange response: JSON with or without auth_token,
\* with zero, one or two members.  A missing key is the empty sequence.
AuthInfos ==
    { [auth_token |-> <<"tokA">>, members |-> <<9, 7>>],
      [auth_token |-> <<"tokA">>, members |-> <<>>],
      [auth_token |-> <<>>, members |-> <<7>>] }

\* HTTP status of a response that arrived.
Statuses == {200, 500}
\* What a request ends in: a status, or 0 for a failure in the network
\* (requests raises ConnectionError).
Outcomes == {0} \cup Statuses

Is2xx(status) == status \in 200..299

\* The login-config page: has it a <script data-container>, and what does
\* the pattern "var SETTINGS = (.*);" capture in it (<<>>: no match).
LoginPages ==
    { [script |-> FALSE, settings |-> <<>>], [script |-> TRUE, settings |-> <<>>] }
    \cup { [script |-> TRUE,
            settings |-> << [csrf |-> c,
                             hosts |-> [tenant |-> "tenant", policy |-> "policy"],
                             transId |-> "tx", api |-> "api"] >>] : c \in CsrfTokens }

\* The confirmation page: has it <form id="auto">, has it <input id="code">.
ConfirmPages == [form : BOOLEAN, input : BOOLEAN]

\* The page after the code POST: has it a div with member-sso-login and company-id.
FinalPages == [div : BOOLEAN]

\* The body of the SSO exchange response: JSON or not.
SsoBodies ==
    { [json |-> FALSE, value |-> <<>>] }
    \cup { [json |-> TRUE, value |-> <<a>>] : a \in AuthInfos }

\* The body of the events response: JSON with _embedded.events, or not JSON.
EventsBodies == [json : BOOLEAN]

HeaderNames == {"App-Id", "App-Key", "Auth-Token", "X-CSRF-TOKEN"}
Absent == "<absent>"

LoggerNames ==
    { "Booker._auth_info", "Booker._login_config", "Booker._checkout",
      "Booker._get_first_matching", "Booker._get_slots_for", "Booker._login",
      "Booker.book" }

\* ------------------------------------------------------------------ state
VARIABLES
    pc,            \* position of the program (line of booker.py it is about to run)
    today,         \* the date datetime.now() gives
    password,      \* Booker.password (Booker.email is Email)
    headers,       \* session.headers
    login_config,  \* cached_property _login_config: <<>> or <<value>>
    auth_info,     \* cached_property _auth_info
    member_id,     \* cached_property _member_id
    sso_token,     \* cached_property _sso_token
    locals,        \* local variables of the running method
    handlers,      \* number of StreamHandlers attached to each logger
    sent,          \* requests sent so far, with the status that came back
    log,           \* log records emitted so far
    raised,        \* outcome of the last operation: "none", "ok" or the exception
    error,         \* message of the last NoSlotsAvailable / LoginError
    books,         \* number of book() calls started
    args,          \* start, lane and days_ahead the caller books with
    last,          \* the request last sent and what it ended in
    events,        \* provider: the events of the target date
    basket,        \* provider: "empty", or "item" after an accepted add_item
    impl,          \* the copy of Booker and Lane that runs: src/booker.py or main.py
    hour,          \* main(): today.hour in Europe/London
    bypass,        \* main(): was a flag to skip the opening-hour test given
    BOOKING_OPEN_TIME  \* config.py (not part of the sources): the opening hour

vars == <<pc, today, password, headers, login_config, auth_info, member_id, sso_token,
          locals, handlers, sent, log, raised, error, books, args, last, events, basket,
          impl, hour, bypass, BOOKING_OPEN_TIME>>

\* What the caller and the provider fix for the whole run.
env == <<today, password, args, events, impl, hour, bypass, BOOKING_OPEN_TIME>>

\* ---------------------------------------------------------------- helpers
\* A property that is computed again at every access.
NeverCached(c) == FALSE

\* functools.cached_property: the value is in the instance dict or not.
Cached(c) == c # <<>>

NoLocals ==
    [endpoint |-> "", code |-> "", token |-> "", company_id |-> "",
     start |-> 0, lane |-> "", target_date |-> 0, slots |-> <<>>, slot |-> <<>>]

NoError == [kind |-> "none"]

Range(s) == { s[i] : i \in DOMAIN s }

\* ----------------------------------------------------------------- log.py
\* Logger.setLevel(level): DEBUG unless the call site keeps the default INFO.
LoggerLevel(name) == IF name = "Booker.book" THEN "INFO" ELSE "DEBUG"

LevelNo(level) ==
    CASE level = "DEBUG" -> 10
      [] level = "INFO" -> 20
      [] level = "WARNING" -> 30
      [] level = "ERROR" -> 40

\* get_logger adds one more StreamHandler to the named logger at every call;
\* main.py calls logging.getLogger(name), which adds none.
get_logger(h, name) == IF impl = "main.py" THEN h ELSE [h EXCEPT ![name] = @ + 1]

\* A record: strs are the strings formatted into the message, vals the
\* other values formatted into it.
Rec(name, level, msg, strs, vals) ==
    [name |-> name, level |-> level, msg |-> msg, strs |-> strs, vals |-> vals]

\* logger.debug/info/error: every handler of the logger emits the record.
\* In main.py no logger has a level or a handler: the root's level WARNING
\* applies and logging's handler of last resort emits the record once.
Emit(l, h, r) ==
    IF impl = "main.py"
    THEN IF LevelNo(r.level) >= LevelNo("WARNING") THEN Append(l, r) ELSE l
    ELSE IF LevelNo(r.level) >= LevelNo(LoggerLevel(r.name))
         THEN l \o [i \in 1..h[r.name] |-> r]
         ELSE l

\* --------------------------------------------------------------- lane.py
LowerCase == <<"a", "b", "c", "d", "e", "f", "g", "h", "i", "j", "k", "l", "m",
               "n", "o", "p", "q", "r", "s", "t", "u", "v", "w", "x", "y", "z">>
UpperCase == <<"A", "B", "C", "D", "E", "F", "G", "H", "I", "J", "K", "L", "M",
               "N", "O", "P", "Q", "R", "S", "T", "U", "V", "W", "X", "Y", "Z">>

\* str.upper() on one character.
UpperChar(c) ==
    IF \E i \in DOMAIN LowerCase : LowerCase[i] = c
    THEN UpperCase[CHOOSE i \in DOMAIN LowerCase : LowerCase[i] = c]
    ELSE c

\* The string left as it is.
UpperSkipped(s) == s

Upper(s) == [i \in DOMAIN s |-> UpperChar(s[i])]

\* s.split(" ", 1)[0]: the characters before the first space.
FirstWord(s) ==
    IF \E i \in DOMAIN s : s[i] = " "
    THEN SubSeq(s, 1, (CHOOSE i \in DOMAIN s :
                          s[i] = " " /\ \A j \in 1..(i - 1) : s[j] # " ") - 1)
    ELSE s

\* The members of enum Lane, by name.
LaneMembers ==
    { <<<<"U", "N", "K", "N", "O", "W", "N">>, "UNKNOWN">>,
      <<<<"S", "L", "O", "W">>, "SLOW">>,
      <<<<"M", "E", "D", "I", "U", "M">>, "MEDIUM">>,
      <<<<"F", "A", "S", "T">>, "FAST">> }

\* Lane.get(key): Lane[key], UNKNOWN on KeyError.
LaneGet(key) ==
    IF \E m \in LaneMembers : m[1] = key
    THEN (CHOOSE m \in LaneMembers : m[1] = key)[2]
    ELSE "UNKNOWN"

\* The members of enum Lane of main.py, by name.
MainLaneMembers == { m \in LaneMembers : m[2] # "UNKNOWN" }

\* Lane[key] of main.py: <<>> is KeyError, else <<the member>>.
MainLane(key) ==
    IF \E m \in MainLaneMembers : m[1] = key
    THEN <<(CHOOSE m \in MainLaneMembers : m[1] = key)[2]>>
    ELSE <<>>

\* ------------------------------------------------------ Booker._transform
RECURSIVE DigitsOf(_)
\* f"{n:d}": the decimal digits of n.
DigitsOf(n) == IF n < 10 THEN <<n>> ELSE DigitsOf(n \div 10) \o <<n % 10>>

\* f"{n:d}" where the code has f"{n:02d}".
Pad2Unpadded(n) == DigitsOf(n)

\* f"{n:02d}": at least two digits, zero-padded.
Pad2(n) == IF n < 10 THEN <<0>> \o DigitsOf(n) ELSE DigitsOf(n)

RECURSIVE ParseInt(_)
\* int(s) of a digit string.
ParseInt(ds) ==
    IF ds = <<>> THEN 0
    ELSE 10 * ParseInt(SubSeq(ds, 1, Len(ds) - 1)) + ds[Len(ds)]

transform(slot) ==
    [start_time |-> ParseInt(DigitsOf(slot.datetime.hour) \o Pad2(slot.datetime.minute)),
     lane |-> LaneGet(Upper(FirstWord(slot.description))),
     event_id |-> slot.id,
     event_chain_id |-> slot.event_chain_id]

\* _transform of main.py: <<>> is the KeyError of Lane[lane.upper()], else
\* <<the normalized slot>>.
transform_main(slot) ==
    IF MainLane(Upper(FirstWord(slot.description))) = <<>> THEN <<>>
    ELSE << [start_time |-> ParseInt(DigitsOf(slot.datetime.hour)
                                      \o Pad2(slot.datetime.minute)),
             lane |-> MainLane(Upper(FirstWord(slot.description)))[1],
             event_id |-> slot.id,
             event_chain_id |-> slot.event_chain_id] >>

\* ---------------------------------------------- Booker._get_first_matching
RECURSIVE ScanFromEither(_, _, _, _)
\* The scan with "or" for "and" between the two tests.
ScanFromEither(slots, lane, start_time, i) ==
    IF i > Len(slots) THEN 0
    ELSE IF slots[i].lane = lane \/ slots[i].start_time = start_time THEN i
    ELSE ScanFromEither(slots, lane, start_time, i + 1)

RECURSIVE ScanFrom(_, _, _, _)
\* The generator expression: the index of the first slot at or after i
\* with the lane and the start time, 0 when the slots run out.
ScanFrom(slots, lane, start_time, i) ==
    IF i > Len(slots) THEN 0
    ELSE IF slots[i].lane = lane /\ slots[i].start_time = start_time THEN i
    ELSE ScanFrom(slots, lane, start_time, i + 1)

\* The dict the generator yields for a slot.
BookingRequest(slot, member) ==
    [event_id |-> slot.event_id, event_chain_id |-> slot.event_chain_id,
     member_id |-> member]

\* next(...) of the generator: <<>> is StopIteration, else <<the request>>.
get_first_matching(slots, lane, start_time, member) ==
    IF ScanFrom(slots, lane, start_time, 1) = 0 THEN <<>>
    ELSE <<BookingRequest(slots[ScanFrom(slots, lane, start_time, 1)], member)>>

\* ------------------------------------------------------------ the session
\* session.get / session.post: the request goes out with the session's
\* headers; requests raises on a network failure, not on a non-2xx status.
Request(name, data) == [req |-> name, headers |-> headers, data |-> data]

\* The request goes out; `last` keeps what came back: the status (0: nothing
\* came back) and the body.
Send(name, data, status, body) ==
    /\ sent' = Append(sent, Request(name, data))
    /\ last' = [req |-> name, status |-> status, body |-> body]

NoRequest == [req |-> "none", status |-> 200, body |-> <<>>]

\* The hours main() may run at, and the opening hour config.py may hold.
HourChoices == {7, 12}
OpenTimeChoices == {7}

Init ==
    /\ pc = "new"
    /\ impl = "src/booker.py"
    /\ BOOKING_OPEN_TIME \in OpenTimeChoices
    /\ hour = BOOKING_OPEN_TIME
    /\ bypass = FALSE
    /\ today \in TodayChoices
    /\ password \in Passwords
    /\ args \in [start : StartChoices, lane : LaneChoices, days_ahead : DaysAheadChoices]
    /\ events \in EventLists
    /\ headers = [h \in HeaderNames |-> Absent]
    /\ login_config = <<>>
    /\ auth_info = <<>>
    /\ member_id = <<>>
    /\ sso_token = <<>>
    /\ locals = NoLocals
    /\ handlers = [n \in LoggerNames |-> 0]
    /\ sent = <<>>
    /\ log = <<>>
    /\ raised = "none"
    /\ error = NoError
    /\ books = 0
    /\ last = NoRequest
    /\ basket = "empty"

\* The constructor raised: no Booker instance exists.
RaiseInInit(exc) ==
    /\ pc' = "raised"
    /\ raised' = exc
    /\ locals' = NoLocals

\* book() raised: the instance stays, the call's locals are gone.
RaiseInBook(exc) ==
    /\ pc' = "idle"
    /\ raised' = exc
    /\ locals' = NoLocals

\* ------------------------------------------------------- Booker.__init__
\* Line 22: the static identity headers.
IdentityHeaders(h) == [h EXCEPT !["App-Id"] = APP_ID, !["App-Key"] = APP_KEY]

\* Booker(email, password): the identity headers, then the first access of
\* _sso_token, which enters _auth_info and _login up to the first access
\* of _login_config.
New ==
    /\ pc = "new"
    /\ headers' = IdentityHeaders(headers)
    /\ handlers' = get_logger(get_logger(handlers, "Booker._auth_info"), "Booker._login")
    /\ log' = Emit(log, handlers',
                   Rec("Booker._login", "DEBUG",
                       "Updating session headers with scraped CSRF token...", <<>>, <<>>))
    /\ pc' = "L129"
    /\ UNCHANGED <<env, login_config, auth_info, member_id, sso_token, locals, sent,
                   raised, error, books, last, basket>>

\* --------------------------------------------------- Booker._login_config
\* The scrape without the test of the search result: None.group(1).
ScrapeSettingsUnchecked(page) ==
    IF page.script /\ page.settings # <<>> THEN "ok" ELSE "AttributeError"

\* Lines 49-53: what the scrape of the login page ends in.
ScrapeSettings(page) ==
    CASE ~page.script -> "AttributeError"     \* soup.find(...) is None: None.string
      [] page.script /\ page.settings = <<>> -> "LoginError"
      [] page.script /\ page.settings # <<>> -> "ok"

\* First access of the cached property: GET the login page and scrape it.
FetchLoginConfig ==
    /\ pc \in {"L129", "L131", "L144"}
    /\ ~Cached(login_config)
    /\ \E status \in Outcomes, page \in LoginPages :
         LET h1 == get_logger(handlers, "Booker._login_config")
             l1 == Emit(log, h1,
                        Rec("Booker._login_config", "DEBUG",
                            "Sending a GET request to https://www.nuffieldhealth.com/account/idaaslogin",
                            <<>>, <<>>))
             l2 == Emit(l1, h1,
                        Rec("Booker._login_config", "DEBUG",
                            "Attempting to scrape login config from returned page...",
                            <<>>, <<>>))
         IN /\ handlers' = h1
            /\ Send("GET idaaslogin", <<>>, status, page)
            /\ CASE status = 0 ->
                      /\ log' = l1
                      /\ RaiseInInit("ConnectionError")
                      /\ UNCHANGED <<login_config, error>>
                 [] status # 0 /\ ScrapeSettings(page) = "AttributeError" ->
                      /\ log' = l2
                      /\ RaiseInInit("AttributeError")
                      /\ UNCHANGED <<login_config, error>>
                 [] status # 0 /\ ScrapeSettings(page) = "LoginError" ->
                      /\ log' = Emit(l2, h1,
                                     Rec("Booker._login_config", "ERROR",
                                         "Unable to scrape login config!", <<>>, <<>>))
                      /\ RaiseInInit("LoginError")
                      /\ error' = [kind |-> "LoginError",
                                   message |-> "Unable to scrape login config!"]
                      /\ UNCHANGED login_config
                 [] status # 0 /\ ScrapeSettings(page) = "ok" ->
                      /\ log' = Emit(l2, h1,
                                     Rec("Booker._login_config", "DEBUG",
                                         "Successfully scraped login config.", <<>>, <<>>))
                      /\ login_config' = page.settings
                      /\ UNCHANGED <<pc, raised, locals, error>>
    /\ UNCHANGED <<env, headers, auth_info, member_id, sso_token, books, basket>>

\* ---------------------------------------------------------- Booker._login
\* Line 129: the scraped CSRF token becomes a session header.
UpdateCsrfHeader ==
    /\ pc = "L129"
    /\ Cached(login_config)
    /\ headers' = [headers EXCEPT !["X-CSRF-TOKEN"] = login_config[1].csrf]
    /\ pc' = "L131"
    /\ UNCHANGED <<env, login_config, auth_info, member_id, sso_token, locals,
                   handlers, sent, log, raised, error, books, last, basket>>

\* Lines 131-142: the credential POST; its response is not looked at.
PostSelfAsserted ==
    /\ pc = "L131"
    /\ Cached(login_config)
    /\ \E status \in Outcomes :
         LET cfg == login_config[1]
             params == [tx |-> cfg.transId, p |-> cfg.hosts.policy]
             data == [request_type |-> "RESPONSE", email |-> Email, password |-> password]
         IN /\ log' = Emit(log, handlers,
                           Rec("Booker._login", "DEBUG",
                               "Sending a POST request to {endpoint} with params={params}, data={data}",
                               <<cfg.hosts.tenant, params.tx, params.p,
                                 data.request_type, data.email, data.password>>, <<>>))
            /\ Send("POST SelfAsserted",
                    [tenant |-> cfg.hosts.tenant, params |-> params, data |-> data], status, <<>>)
            /\ IF status = 0
               THEN RaiseInInit("ConnectionError")
               ELSE /\ pc' = "L144"
                    /\ UNCHANGED <<raised, locals>>
    /\ UNCHANGED <<env, headers, login_config, auth_info, member_id, sso_token,
                   handlers, error, books, basket>>

\* Lines 144-151: the confirmation GET and the scrape of form and code.
GetConfirmed ==
    /\ pc = "L144"
    /\ Cached(login_config)
    /\ \E status \in Outcomes, page \in ConfirmPages :
         LET cfg == login_config[1]
             params == [tx |-> cfg.transId, p |-> cfg.hosts.policy, csrf_token |-> cfg.csrf]
         IN /\ log' = Emit(log, handlers,
                           Rec("Booker._login", "DEBUG",
                               "Sending a GET request to {endpoint} with params={params}",
                               <<cfg.hosts.tenant, cfg.api, params.tx, params.p,
                                 params.csrf_token>>, <<>>))
            /\ Send("GET confirmed",
                    [tenant |-> cfg.hosts.tenant, api |-> cfg.api, params |-> params], status,
                    page)
            /\ CASE status = 0 -> RaiseInInit("ConnectionError")
                 \* soup.find("form", id="auto") is None: None.get
                 [] status # 0 /\ ~page.form -> RaiseInInit("AttributeError")
                 \* soup.find("input", id="code") is None: None.get
                 [] status # 0 /\ page.form /\ ~page.input -> RaiseInInit("AttributeError")
                 [] status # 0 /\ page.form /\ page.input ->
                      /\ pc' = "L152"
                      /\ locals' = [locals EXCEPT !.endpoint = "form-action",
                                                  !.code = "one-time-code"]
                      /\ UNCHANGED raised
    /\ UNCHANGED <<env, headers, login_config, auth_info, member_id, sso_token,
                   handlers, error, books, basket>>

\* Lines 152-159: the code POST and the scrape of the SSO attributes.
PostCode ==
    /\ pc = "L152"
    /\ \E status \in Outcomes, page \in FinalPages :
         LET l1 == Emit(log, handlers,
                        Rec("Booker._login", "DEBUG",
                            "Sending a POST request to {endpoint} with data={data}",
                            <<locals.endpoint, locals.code>>, <<>>))
         IN /\ Send("POST code",
                    [endpoint |-> locals.endpoint, data |-> [code |-> locals.code]], status,
                    page)
            /\ IF status = 0
               THEN /\ log' = l1
                    /\ RaiseInInit("ConnectionError")
               ELSE /\ log' = Emit(l1, handlers,
                                   Rec("Booker._login", "INFO",
                                       "Sucessfully logged in as {email}.", <<Email>>, <<>>))
                    /\ IF page.div
                       THEN /\ pc' = "L33"
                            /\ locals' = [locals EXCEPT !.token = "member-sso-login",
                                                        !.company_id = "company-id"]
                            /\ UNCHANGED raised
                       \* soup.find("div", ...) is None: None.get
                       ELSE RaiseInInit("AttributeError")
    /\ UNCHANGED <<env, headers, login_config, auth_info, member_id, sso_token,
                   handlers, error, books, basket>>

\* ------------------------------------- Booker._auth_info, Booker._sso_token
\* Line 63: auth_info["auth_token"]; <<>> is KeyError.
SsoTokenOf(info) == info.auth_token

\* The header update left out.
AuthHeaderForgotten(h, token) == h

\* Line 23: the bearer token becomes a session header.
\* The token stored by a fresh headers dict that keeps the identity only.
AuthHeaderDroppingCsrf(h, token) ==
    [h EXCEPT !["Auth-Token"] = token, !["X-CSRF-TOKEN"] = Absent]

AuthHeader(h, token) == [h EXCEPT !["Auth-Token"] = token]

\* Lines 33-38: the SSO exchange; then _sso_token reads auth_token and
\* __init__ puts it on the session (line 23).
PostSso ==
    /\ pc = "L33"
    /\ \E status \in Outcomes, body \in SsoBodies :
         LET l1 == Emit(log, handlers,
                        Rec("Booker._auth_info", "DEBUG",
                            "Sending a POST request to {url}...", <<locals.company_id>>, <<>>))
         IN /\ Send("POST login/sso",
                    [company_id |-> locals.company_id, data |-> [token |-> locals.token]],
                    status, body)
            /\ CASE status = 0 ->
                      /\ log' = l1
                      /\ RaiseInInit("ConnectionError")
                      /\ UNCHANGED <<auth_info, sso_token, headers>>
                 [] status # 0 /\ ~body.json ->
                      /\ log' = l1
                      /\ RaiseInInit("JSONDecodeError")
                      /\ UNCHANGED <<auth_info, sso_token, headers>>
                 [] status # 0 /\ body.json ->
                      /\ log' = Emit(l1, handlers,
                                     Rec("Booker._auth_info", "DEBUG",
                                         "POST request succeeded, returning auth info={auth_info}",
                                         body.value[1].auth_token, <<body.value[1].members>>))
                      /\ auth_info' = body.value
                      /\ IF SsoTokenOf(body.value[1]) = <<>>
                         THEN /\ RaiseInInit("KeyError")
                              /\ UNCHANGED <<sso_token, headers>>
                         ELSE /\ sso_token' = SsoTokenOf(body.value[1])
                              /\ headers' = AuthHeader(headers, SsoTokenOf(body.value[1])[1])
                              /\ pc' = "idle"
                              /\ locals' = NoLocals
                              /\ UNCHANGED raised
    /\ UNCHANGED <<env, login_config, member_id, handlers, error, books, basket>>

\* ------------------------------------------------------------ Booker.book
\* Lines 178-181 and, in _get_slots_for, lines 107-116: the call of
\* book(start, lane, days_ahead) up to the events request.
BookCall ==
    /\ pc = "idle"
    /\ books < (IF impl = "main.py" THEN 1 ELSE MaxBooks)
    /\ LET target_date == today + args.days_ahead
           h1 == get_logger(handlers, "Booker.book")
           l1 == Emit(log, h1,
                      Rec("Booker.book", "INFO",
                          "Booking slot with start={start} and lane={lane} on {target_date}",
                          <<args.lane>>, <<args.start, target_date>>))
           h2 == get_logger(h1, "Booker._get_slots_for")
           l2 == Emit(l1, h2,
                      Rec("Booker._get_slots_for", "INFO",
                          "Retrieving slots for {date_str}...", <<>>, <<target_date>>))
           l3 == Emit(l2, h2,
                      Rec("Booker._get_slots_for", "DEBUG",
                          "Sending a GET request to {endpoint} with params={params}",
                          <<>>, <<target_date, target_date, FALSE>>))
       IN /\ handlers' = h2
          /\ log' = l3
          /\ locals' = [NoLocals EXCEPT !.start = args.start, !.lane = args.lane,
                                        !.target_date = target_date]
    /\ books' = books + 1
    /\ raised' = "none"
    /\ error' = NoError
    /\ last' = NoRequest
    /\ pc' = "L117"
    /\ UNCHANGED <<env, headers, login_config, auth_info, member_id, sso_token, sent,
                   basket>>

\* ---------------------------------------------------- Booker._get_slots_for
\* The events normalized last to first.
NormalizeReversed(es) == [i \in DOMAIN es |-> transform(es[Len(es) + 1 - i])]

\* Lines 118-121: every event of the body is normalized, in the order of
\* the body.
Normalize(es) == [i \in DOMAIN es |-> transform(es[i])]

\* The same in main.py, where _transform raises KeyError for a description
\* whose first word names no lane: <<>> when it raises, else <<the list>>.
NormalizeMain(es) ==
    IF \E i \in DOMAIN es : transform_main(es[i]) = <<>> THEN <<>>
    ELSE << [i \in DOMAIN es |-> transform_main(es[i])[1]] >>

\* The list comprehension of the copy that runs.
Slots(es) == IF impl = "main.py" THEN NormalizeMain(es) ELSE <<Normalize(es)>>

\* The slots taken without a request to the provider.
GetSlotsForSkipped ==
    /\ pc = "L117"
    /\ pc' = "L185"
    /\ locals' = [locals EXCEPT !.slots = Normalize(events)]
    /\ UNCHANGED <<env, headers, login_config, auth_info, member_id, sso_token,
                   handlers, sent, log, raised, error, books, last, basket>>

\* Lines 117-123: the events GET and the normalization of its body.
GetSlotsFor ==
    /\ pc = "L117"
    /\ \E status \in Outcomes, body \in EventsBodies :
         /\ Send("GET events",
                 [start_date |-> locals.target_date, end_date |-> locals.target_date,
                  include_non_bookable |-> FALSE], status, body)
         /\ CASE status = 0 ->
                   /\ RaiseInBook("ConnectionError")
                   /\ UNCHANGED log
              [] status # 0 /\ ~body.json ->
                   /\ RaiseInBook("JSONDecodeError")
                   /\ UNCHANGED log
              [] status # 0 /\ body.json /\ Slots(events) = <<>> ->
                   /\ RaiseInBook("KeyError")
                   /\ UNCHANGED log
              [] status # 0 /\ body.json /\ Slots(events) # <<>> ->
                   /\ log' = Emit(log, handlers,
                                  Rec("Booker._get_slots_for", "INFO",
                                      "Found {len(slots)} available slots for {date_str}.",
                                      <<>>, <<Len(Slots(events)[1]), locals.target_date>>))
                   /\ locals' = [locals EXCEPT !.slots = Slots(events)[1]]
                   /\ pc' = "L185"
                   /\ UNCHANGED raised
    /\ UNCHANGED <<env, headers, login_config, auth_info, member_id, sso_token,
                   handlers, error, books, basket>>

\* ------------------------------------------------------- Booker._member_id
\* auth_info["_embedded"]["members"][0]["id"]: <<>> when the list is empty
\* (IndexError), else the first member's id.
MemberIdOf(info) == IF info.members = <<>> THEN <<>> ELSE <<info.members[1]>>

\* The cached property: the stored value, or the value computed now.
MemberIdValue == IF Cached(member_id) THEN member_id ELSE MemberIdOf(auth_info[1])

\* ------------------------------------------- Booker._get_first_matching
\* The message naming today's date for the target date.
NoSlotsMessageToday(start, lane, target_date) ==
    [kind |-> "NoSlotsAvailable", start_time |-> start, lane |-> lane,
     target_date |-> today]

\* The message of the NoSlotsAvailable book raises (lines 188-190).
NoSlotsMessage(start, lane, target_date) ==
    [kind |-> "NoSlotsAvailable", start_time |-> start, lane |-> lane,
     target_date |-> target_date]

\* Lines 90-104, and the except clause of book (lines 187-190).  The
\* generator reads _member_id only when it yields.
GetFirstMatching ==
    /\ pc = "L185"
    /\ LET m == MemberIdValue
           found == get_first_matching(locals.slots, locals.lane, locals.start,
                                       IF m = <<>> THEN 0 ELSE m[1])
           h1 == get_logger(handlers, "Booker._get_first_matching")
       IN /\ handlers' = h1
          /\ CASE found = <<>> ->
                    \* next() raises StopIteration; book turns it into NoSlotsAvailable
                    /\ RaiseInBook("NoSlotsAvailable")
                    /\ error' = NoSlotsMessage(locals.start, locals.lane, locals.target_date)
                    /\ UNCHANGED <<member_id, log>>
               [] found # <<>> /\ m = <<>> ->
                    /\ RaiseInBook("IndexError")
                    /\ UNCHANGED <<member_id, log, error>>
               [] found # <<>> /\ m # <<>> ->
                    /\ member_id' = m
                    /\ locals' = [locals EXCEPT !.slot = found]
                    /\ log' = Emit(log, h1,
                                   Rec("Booker._get_first_matching", "INFO",
                                       "{first_matching_slot} matches lane={lane} and start_time={start_time}",
                                       <<locals.lane>>, <<found[1], locals.start>>))
                    /\ pc' = "L80"
                    /\ UNCHANGED <<raised, error>>
    /\ UNCHANGED <<env, headers, login_config, auth_info, sso_token, sent, books,
                   last, basket>>

\* --------------------------------------------------------- Booker._checkout
\* _checkout without its first request.
PostAddItemSkipped ==
    /\ pc = "L80"
    /\ pc' = "L85"
    /\ handlers' = get_logger(handlers, "Booker._checkout")
    /\ UNCHANGED <<env, headers, login_config, auth_info, member_id, sso_token,
                   locals, sent, log, raised, error, books, last, basket>>

\* _checkout returning after its first request.
PostCheckoutSkipped ==
    /\ pc = "L85"
    /\ pc' = "idle"
    /\ raised' = "ok"
    /\ locals' = NoLocals
    /\ UNCHANGED <<env, headers, login_config, auth_info, member_id, sso_token,
                   handlers, sent, log, error, books, last, basket>>

\* Lines 77-83: the basket add_item POST; its response is not looked at.
\* The provider takes the item into the basket when it answers 2xx.
PostAddItem ==
    /\ pc = "L80"
    /\ \E status \in Outcomes :
         LET h1 == get_logger(handlers, "Booker._checkout")
             l1 == Emit(log, h1,
                        Rec("Booker._checkout", "INFO", "Checking out {slot}...",
                            <<>>, <<locals.slot[1]>>))
             data == [entire_basket |-> TRUE, items |-> <<locals.slot[1]>>]
         IN /\ handlers' = h1
            /\ log' = Emit(l1, h1,
                           Rec("Booker._checkout", "DEBUG",
                               "Sending a POST request to {endpoint} with json={data}",
                               <<>>, <<data>>))
            /\ Send("POST basket/add_item", data, status, <<>>)
            /\ basket' = IF Is2xx(status) THEN "item" ELSE basket
            /\ IF status = 0
               THEN RaiseInBook("ConnectionError")
               ELSE /\ pc' = "L85"
                    /\ UNCHANGED <<raised, locals>>
    /\ UNCHANGED <<env, headers, login_config, auth_info, member_id, sso_token,
                   error, books>>

\* Lines 85-88: the basket checkout POST; its response is not looked at.
\* The provider books what is in the basket when it answers 2xx.
PostCheckout ==
    /\ pc = "L85"
    /\ \E status \in Outcomes :
         LET data == [client |-> [id |-> MemberIdValue[1]]]
         IN /\ log' = Emit(log, handlers,
                           Rec("Booker._checkout", "DEBUG",
                               "Sending a POST request to {endpoint} with json={data}",
                               <<>>, <<data>>))
            /\ Send("POST basket/checkout", data, status, <<>>)
            /\ basket' = IF Is2xx(status) THEN "empty" ELSE basket
            /\ IF status = 0
               THEN RaiseInBook("ConnectionError")
               ELSE /\ pc' = "idle"
                    /\ raised' = "ok"
                    /\ locals' = NoLocals
    /\ UNCHANGED <<env, headers, login_config, auth_info, member_id, sso_token,
                   handlers, error, books>>

\* -------------------------------------------------- the cached accessors
\* What a read of a cached property on the constructed instance returns.
AccessValue(which) ==
    CASE which = "_login_config" -> login_config
      [] which = "_auth_info" -> auth_info
      [] which = "_sso_token" -> sso_token
      [] which = "_member_id" -> MemberIdValue

\* A read of _login_config, _auth_info, _sso_token or _member_id between
\* two calls: the first three are in the instance dict since __init__ and
\* the read changes nothing; _member_id is stored at its first read.
Access ==
    /\ pc = "idle"
    /\ impl # "main.py"
    /\ \E which \in {"_login_config", "_auth_info", "_sso_token", "_member_id"} :
         member_id' = IF which = "_member_id" THEN AccessValue(which) ELSE member_id
    /\ UNCHANGED <<pc, env, headers, login_config, auth_info, sso_token, locals,
                   handlers, sent, log, raised, error, books, last, basket>>

Next ==
    \/ New
    \/ FetchLoginConfig
    \/ UpdateCsrfHeader
    \/ PostSelfAsserted
    \/ GetConfirmed
    \/ PostCode
    \/ PostSso
    \/ BookCall
    \/ GetSlotsFor
    \/ GetFirstMatching
    \/ PostAddItem
    \/ PostCheckout
    \/ Access

Spec == Init /\ [][Next]_vars

\* ------------------------------------------- Booker._transform on its own
\* A raw slot of an events response, before _get_slots_for normalises it.
InitTransform ==
    /\ pc = "transform"
    /\ impl = "src/booker.py"
    /\ BOOKING_OPEN_TIME \in OpenTimeChoices
    /\ hour = BOOKING_OPEN_TIME
    /\ bypass = FALSE
    /\ today \in TodayChoices
    /\ password \in {"hunter2"}
    /\ args \in [start : {800}, lane : {"MEDIUM"}, days_ahead : DaysAheadChoices]
    /\ events \in [1..1 -> RawSlots]
    /\ headers = [h \in HeaderNames |-> Absent]
    /\ login_config = <<>>
    /\ auth_info = <<>>
    /\ member_id = <<>>
    /\ sso_token = <<>>
    /\ locals = NoLocals
    /\ handlers = [n \in LoggerNames |-> 0]
    /\ sent = <<>>
    /\ log = <<>>
    /\ raised = "none"
    /\ error = NoError
    /\ books = 0
    /\ last = NoRequest
    /\ basket = "empty"

\* Lines 118-121: slots = [Booker._transform(slot) for slot in ...].
TransformSlots ==
    /\ pc = "transform"
    /\ pc' = "transformed"
    /\ IF Slots(events) = <<>>
       THEN /\ raised' = "KeyError"
            /\ UNCHANGED locals
       ELSE /\ locals' = [locals EXCEPT !.slots = Slots(events)[1]]
            /\ UNCHANGED raised
    /\ UNCHANGED <<env, headers, login_config, auth_info, member_id, sso_token,
                   handlers, sent, log, error, books, last, basket>>

NextTransform == TransformSlots

SpecTransform == InitTransform /\ [][NextTransform]_vars

\* The same for _transform of main.py.
InitTransformMain ==
    /\ pc = "transform"
    /\ impl = "main.py"
    /\ BOOKING_OPEN_TIME \in OpenTimeChoices
    /\ hour = BOOKING_OPEN_TIME
    /\ bypass = FALSE
    /\ today \in TodayChoices
    /\ password \in {"hunter2"}
    /\ args \in [start : {800}, lane : {"MEDIUM"}, days_ahead : DaysAheadChoices]
    /\ events \in [1..1 -> RawSlots]
    /\ headers = [h \in HeaderNames |-> Absent]
    /\ login_config = <<>>
    /\ auth_info = <<>>
    /\ member_id = <<>>
    /\ sso_token = <<>>
    /\ locals = NoLocals
    /\ handlers = [n \in LoggerNames |-> 0]
    /\ sent = <<>>
    /\ log = <<>>
    /\ raised = "none"
    /\ error = NoError
    /\ books = 0
    /\ last = NoRequest
    /\ basket = "empty"

SpecTransformMain == InitTransformMain /\ [][NextTransform]_vars

\* ------------------------------------------------------ main() of main.py
\* The process starts: the clock, the opening hour of config.py, the command
\* line (with or without a flag asking to skip the opening-hour test), the
\* .env file and the provider's events are given.
InitMain ==
    /\ pc = "main"
    /\ impl = "main.py"
    /\ BOOKING_OPEN_TIME \in OpenTimeChoices
    /\ hour \in HourChoices
    /\ bypass \in BOOLEAN
    /\ today \in TodayChoices
    /\ password \in Passwords
    /\ args \in [start : StartChoices, lane : LaneChoices, days_ahead : DaysAheadChoices]
    /\ events \in EventLists
    /\ headers = [h \in HeaderNames |-> Absent]
    /\ login_config = <<>>
    /\ auth_info = <<>>
    /\ member_id = <<>>
    /\ sso_token = <<>>
    /\ locals = NoLocals
    /\ handlers = [n \in LoggerNames |-> 0]
    /\ sent = <<>>
    /\ log = <<>>
    /\ raised = "none"
    /\ error = NoError
    /\ books = 0
    /\ last = NoRequest
    /\ basket = "empty"

\* Lines 212-258: the opening-hour test, then the command line.  The test
\* reads the clock and BOOKING_OPEN_TIME only; the parser knows start_time,
\* --lane, --days-ahead and --env, and exits on any other argument.
\* Line 259 (the constructor) is the step New.
Main ==
    /\ pc = "main"
    /\ log' = IF hour # BOOKING_OPEN_TIME
              THEN Emit(Emit(log, handlers,
                             Rec("main", "INFO", "Local time now is {today}.",
                                 <<>>, <<today, hour>>)),
                        handlers,
                        Rec("main", "WARNING",
                            "{today.hour} != {BOOKING_OPEN_TIME}. Skipping...",
                            <<>>, <<hour, BOOKING_OPEN_TIME>>))
              ELSE Emit(log, handlers,
                        Rec("main", "INFO", "Local time now is {today}.",
                            <<>>, <<today, hour>>))
    /\ pc' = IF hour # BOOKING_OPEN_TIME THEN "returned"
             ELSE IF bypass THEN "raised"
             ELSE "new"
    /\ raised' = IF hour = BOOKING_OPEN_TIME /\ bypass THEN "SystemExit" ELSE raised
    /\ UNCHANGED <<env, headers, login_config, auth_info, member_id, sso_token,
                   locals, handlers, sent, error, books, last, basket>>

\* main() calls book() once on the instance and reads no property itself.
NextMain ==
    \/ Main
    \/ New
    \/ FetchLoginConfig
    \/ UpdateCsrfHeader
    \/ PostSelfAsserted
    \/ GetConfirmed
    \/ PostCode
    \/ PostSso
    \/ BookCall
    \/ GetSlotsFor
    \/ GetFirstMatching
    \/ PostAddItem
    \/ PostCheckout

SpecMain == InitMain /\ [][NextMain]_vars

\* ================================================================ claims
\* Indices of the slots whose lane and start time are the requested ones.
MatchSet(slots, lane, start_time) ==
    { i \in DOMAIN slots : slots[i].lane = lane /\ slots[i].start_time = start_time }

\* The slots book() is matching against, and the slots of the run.
RunSlots == Normalize(events)

\* C1: _get_first_matching returns the request built from the lowest-index
\* slot with the requested lane and start time (that slot's event_id and
\* event_chain_id, the cached member id); with no such slot it returns none
\* and the call ends in the no-match outcome.
C1_FirstMatching ==
    /\ pc = "L80" =>
          /\ MatchSet(locals.slots, locals.lane, locals.start) # {}
          /\ \E i \in MatchSet(locals.slots, locals.lane, locals.start) :
                /\ \A j \in MatchSet(locals.slots, locals.lane, locals.start) : i <= j
                /\ locals.slot[1].event_id = locals.slots[i].event_id
                /\ locals.slot[1].event_chain_id = locals.slots[i].event_chain_id
          /\ member_id # <<>>
          /\ locals.slot[1].member_id = member_id[1]
          /\ member_id[1] = auth_info[1].members[1]
    /\ (pc = "idle" /\ raised = "NoSlotsAvailable") =>
          MatchSet(RunSlots, args.lane, args.start) = {}
    /\ (pc = "idle" /\ books > 0 /\ last.req = "GET events" /\ last.status # 0
           /\ last.body.json /\ MatchSet(RunSlots, args.lane, args.start) = {}) =>
          raised = "NoSlotsAvailable"

\* C1 witness: two slots match and the first of them was taken.
C1_Witness ==
    /\ pc = "L80"
    /\ Cardinality(MatchSet(locals.slots, locals.lane, locals.start)) = 2
    /\ Len(locals.slots) = 2
    /\ locals.slot[1].event_id = locals.slots[1].event_id
    /\ locals.slots[1].event_id # locals.slots[2].event_id

\* C2: when no slot of the target date matches, book() ends in
\* NoSlotsAvailable, whose message names the requested start time, the
\* requested lane and the resolved target date, and no basket POST is sent.
C2_NoSlotsAvailable ==
    /\ [](  (pc = "idle" /\ raised = "NoSlotsAvailable") =>
              /\ error = [kind |-> "NoSlotsAvailable", start_time |-> args.start,
                          lane |-> args.lane,
                          target_date |-> today + args.days_ahead]
              /\ last.req = "GET events" )
    /\ [][ (pc = "L185" /\ MatchSet(locals.slots, locals.lane, locals.start) = {}) =>
              (pc' = "idle" /\ raised' = "NoSlotsAvailable" /\ sent' = sent) ]_vars

\* C2 witness: slots were returned, none matched, the call ended in NoSlotsAvailable.
C2_Witness ==
    /\ pc = "idle"
    /\ raised = "NoSlotsAvailable"
    /\ Len(events) > 0
    /\ sent[Len(sent)].req = "GET events"


\* Names of the requests, in the order they were sent.
Names(s) == [i \in DOMAIN s |-> s[i].req]

Count(name) == Cardinality({ i \in DOMAIN sent : sent[i].req = name })

LoginRequests ==
    {"GET idaaslogin", "POST SelfAsserted", "GET confirmed", "POST code", "POST login/sso"}

BookingRequests == {"GET events", "POST basket/add_item", "POST basket/checkout"}

\* The HTML pages of the login flow and the element each is scraped for.
ElementAbsent ==
    \/ last.req = "GET idaaslogin" /\ (~last.body.script \/ last.body.settings = <<>>)
    \/ last.req = "GET confirmed" /\ (~last.body.form \/ ~last.body.input)
    \/ last.req = "POST code" /\ ~last.body.div

\* C3: at every HTML-parsing step of the login flow, an absent element or
\* pattern makes the login fail with LoginError, with no later request of
\* the flow and no (ssoToken, companyId) result.
C3_ScrapeFailureIsLoginError ==
    (last.status # 0 /\ ElementAbsent) =>
        /\ pc = "raised"
        /\ raised = "LoginError"
        /\ sent[Len(sent)].req = last.req
        /\ locals.token = ""
        /\ auth_info = <<>>

\* C4: a non-2xx response or a network failure on any request aborts the
\* run: the failure reaches the caller and no later request is sent.
C4_FailureAborts ==
    (last.req # "none" /\ ~Is2xx(last.status)) =>
        /\ pc \in {"raised", "idle"}
        /\ raised \notin {"none", "ok"}
        /\ sent[Len(sent)].req = last.req

\* C5: no log record emitted during construction or during book() holds
\* the identifier or the secret in cleartext.
C5_NoCredentialInLog ==
    \A i \in DOMAIN log : \A j \in DOMAIN log[i].strs :
        log[i].strs[j] \notin {Email, password}

\* C6: within one instance, whatever the accesses and however many book()
\* calls, each request of the login flow and the SSO exchange is sent at
\* most once, and a cached value, once computed, is the value every later
\* access finds.
C6_LoginAtMostOnce ==
    /\ [](\A r \in LoginRequests : Count(r) <= 1)
    /\ [][ /\ login_config # <<>> => login_config' = login_config
           /\ auth_info # <<>> => auth_info' = auth_info
           /\ sso_token # <<>> => sso_token' = sso_token
           /\ member_id # <<>> => member_id' = member_id ]_vars

\* C6 witness: after the last book() call, with the member id read, every
\* login request has gone out exactly once.
C6_Witness ==
    /\ pc = "idle"
    /\ books = MaxBooks
    /\ member_id # <<>>
    /\ \A r \in LoginRequests : Count(r) = 1
    /\ Count("GET events") = MaxBooks

\* C7: every request carries App-Id and App-Key, and every booking call
\* comes after the whole login flow and the SSO exchange and carries the
\* auth_token of the AuthInfo that exchange returned.
C7_Headers ==
    \A i \in DOMAIN sent :
        /\ sent[i].headers["App-Id"] = APP_ID
        /\ sent[i].headers["App-Key"] = APP_KEY
        /\ sent[i].req \in BookingRequests =>
             /\ \A r \in LoginRequests : \E j \in 1..(i - 1) : sent[j].req = r
             /\ auth_info # <<>>
             /\ auth_info[1].auth_token # <<>>
             /\ sent[i].headers["Auth-Token"] = auth_info[1].auth_token[1]

\* C7 witness: a booking went through all three booking calls.
C7_Witness ==
    /\ pc = "idle"
    /\ raised = "ok"
    /\ BookingRequests \subseteq Range(Names(sent))

FullOrder ==
    << "GET idaaslogin", "POST SelfAsserted", "GET confirmed", "POST code",
       "POST login/sso", "GET events", "POST basket/add_item", "POST basket/checkout" >>

IsPrefix(s, t) == Len(s) <= Len(t) /\ s = SubSeq(t, 1, Len(s))

\* C8: up to the end of the first book() call the requests go out in the
\* order login-config GET, credential POST, confirmation GET, code POST,
\* SSO-exchange POST, events GET, add_item POST, checkout POST, each once
\* and none before the one before it has returned; a call that books has
\* sent exactly these eight.
C8_Order ==
    /\ books <= 1 => IsPrefix(Names(sent), FullOrder)
    /\ (books = 1 /\ pc = "idle" /\ raised = "ok") => Names(sent) = FullOrder

\* C8 witness: the first book() call found a match and returned.
C8_Witness ==
    /\ books = 1
    /\ pc = "idle"
    /\ raised = "ok"
    /\ basket = "empty"
    /\ Len(sent) = Len(FullOrder)

C10_NoPartialBooking == pc \in {"idle", "raised"} => basket = "empty"

\* C10 as amended: an accepted add_item is always followed by an attempt of
\* the checkout POST, and a run of one book() call ends with the item in
\* the basket only when that checkout POST itself failed.
C10_PartialOnlyAtCheckout ==
    /\ (basket = "item" /\ pc # "L85") => Count("POST basket/checkout") > 0
    /\ (pc = "idle" /\ books = 1 /\ basket = "item") =>
          /\ last.req = "POST basket/checkout"
          /\ ~Is2xx(last.status)

\* C10 witness: add_item was accepted, the checkout POST failed in the
\* network, and book() ended with the item still in the basket.
C10_Witness ==
    /\ pc = "idle"
    /\ books = 1
    /\ basket = "item"
    /\ raised = "ConnectionError"
    /\ last.req = "POST basket/checkout"

\* ------------------------------------------------------------------- C11
\* The lane the description stands for: its first space-delimited word,
\* compared letter by letter without regard to case with slow, medium, fast.
LaneWords ==
    { <<<<"s", "l", "o", "w">>, <<"S", "L", "O", "W">>, "SLOW">>,
      <<<<"m", "e", "d", "i", "u", "m">>, <<"M", "E", "D", "I", "U", "M">>, "MEDIUM">>,
      <<<<"f", "a", "s", "t">>, <<"F", "A", "S", "T">>, "FAST">> }

\* The longest prefix of d without a space.
WordBeforeSpace(d) ==
    LET n == CHOOSE k \in 0..Len(d) :
                 /\ \A j \in 1..k : d[j] # " "
                 /\ (k < Len(d) => d[k + 1] = " ")
    IN SubSeq(d, 1, n)

SameWord(w, lw) ==
    /\ Len(w) = Len(lw[1])
    /\ \A j \in 1..Len(w) : w[j] \in {lw[1][j], lw[2][j]}

ExpectedLane(d) ==
    IF \E lw \in LaneWords : SameWord(WordBeforeSpace(d), lw)
    THEN (CHOOSE lw \in LaneWords : SameWord(WordBeforeSpace(d), lw))[3]
    ELSE "UNKNOWN"

\* C11: _transform gives every raw slot the lane its description's first
\* space-delimited word names, whatever the letter case (slow, medium, fast),
\* and UNKNOWN for any other first word and for the empty description; no
\* description makes it fail.
C11_LaneOfDescription ==
    pc = "transformed" =>
        /\ Len(locals.slots) = Len(events)
        /\ \A i \in DOMAIN events :
               /\ locals.slots[i].lane = ExpectedLane(events[i].description)
               /\ locals.slots[i].lane \in {"SLOW", "MEDIUM", "FAST", "UNKNOWN"}

\* A mixed-case first word was mapped to its lane.
C11_Witness ==
    /\ pc = "transformed"
    /\ events[1].description = DescFastMixed
    /\ locals.slots[1].lane = "FAST"

\* ------------------------------------------------------------------- C14
\* C14: for every hour h in 0..23 and minute m in 0..59 of a slot's
\* datetime, _transform gives start_time = h * 100 + m.
C14_StartTime ==
    pc = "transformed" =>
        \A i \in DOMAIN events :
            locals.slots[i].start_time
                = events[i].datetime.hour * 100 + events[i].datetime.minute

\* 00:05 became 5.
C14_Witness ==
    /\ pc = "transformed"
    /\ events[1].datetime = [hour |-> 0, minute |-> 5]
    /\ locals.slots[1].start_time = 5

\* ------------------------------------------------------------------- C12
NoBooker ==
    /\ headers = [h \in HeaderNames |-> Absent]
    /\ sent = <<>>
    /\ ~Cached(login_config) /\ ~Cached(auth_info) /\ ~Cached(sso_token)

\* C12: once main() has made its opening-hour test - at an hour other than
\* BOOKING_OPEN_TIME and without the bypass flag it has returned normally,
\* no Booker was constructed and no request was sent; with the bypass flag
\* the booking flow runs whatever the hour (a Booker is constructed).
C12_HourGate ==
    pc # "main" =>
        /\ (hour # BOOKING_OPEN_TIME /\ ~bypass
               => pc = "returned" /\ raised = "none" /\ NoBooker)
        /\ (bypass => pc \notin {"returned", "raised"} \/ ~NoBooker)

\* ------------------------------------------------------------------- C13
\* C13: within one Booker instance the normalized slot list is computed at
\* most once: however many book() calls are made, at most one events GET
\* is sent.
C13_SlotsFetchedOnce == Count("GET events") <= 1

\* C13, amended: the slot list is not cached; every book() call sends
\* exactly one events GET, so the GETs sent are as many as the calls made.
C13_OneFetchPerCall ==
    Count("GET events") = books - (IF pc = "L117" THEN 1 ELSE 0)

\* A second book() call on the instance has fetched the slots again.
C13_Witness ==
    /\ books = 2
    /\ pc = "L185"
    /\ Count("GET events") = 2
    /\ sent[Len(sent)].req = "GET events"

\* ------------------------------------------------------------------- C15
\* Does the i-th event of the provider's list stand for the lane and the
\* start time the caller asked for.
Wanted(i) ==
    /\ ExpectedLane(events[i].description) = args.lane
    /\ events[i].datetime.hour * 100 + events[i].datetime.minute = args.start

\* The first such event, in the provider's order.
FirstWanted ==
    events[CHOOSE i \in DOMAIN events : Wanted(i) /\ \A j \in 1..(i - 1) : ~Wanted(j)]

\* C15: when book() has succeeded, its last two requests are the add_item
\* POST with {entire_basket: true, items: [r]}, r holding the event_id and
\* event_chain_id of the first event (provider order) with the requested
\* lane and start time and the id of the first member of the auth info, and
\* the checkout POST with {client: {id: that member id}}; and the slot list
\* has one record per event of the response, in the response's order.
C15_Payloads ==
    /\ (pc = "idle" /\ raised = "ok") =>
          /\ \E i \in DOMAIN events : Wanted(i)
          /\ Len(sent) >= 2
          /\ sent[Len(sent) - 1].req = "POST basket/add_item"
          /\ sent[Len(sent) - 1].data =
                 [entire_basket |-> TRUE,
                  items |-> << [event_id |-> FirstWanted.id,
                                event_chain_id |-> FirstWanted.event_chain_id,
                                member_id |-> auth_info[1].members[1]] >>]
          /\ sent[Len(sent)].req = "POST basket/checkout"
          /\ sent[Len(sent)].data = [client |-> [id |-> auth_info[1].members[1]]]
    /\ pc \in {"L185", "L80", "L85"} =>
          /\ Len(locals.slots) = Len(events)
          /\ \A i \in DOMAIN events :
                 /\ locals.slots[i].event_id = events[i].id
                 /\ locals.slots[i].event_chain_id = events[i].event_chain_id

\* A booking was made where two events matched: the one listed first,
\* which has the larger id, was booked for member 9 of members 9, 7.
C15_Witness ==
    /\ pc = "idle" /\ raised = "ok"
    /\ Len(events) = 2 /\ events[1].id = 3 /\ events[2].id = 2
    /\ sent[Len(sent) - 1].data.items[1].event_id = 3
    /\ sent[Len(sent)].data.client.id = 9

\* ------------------------------------------------------------------- C16
\* C16: the copy of the flow in main.py is equivalent to the one in
\* src/booker.py: for every raw slot, _transform of main.py ends as
\* _transform of src/booker.py does, without an exception and with the same
\* normalized slot.
C16_SameTransform ==
    (impl = "main.py" /\ pc = "transformed") =>
        /\ raised = "none"
        /\ locals.slots = Normalize(events)

\* ------------------------------------------------------------------- C17
CsrfOf(hs) == hs["X-CSRF-TOKEN"]

\* C17: every request sent after _login has started carries the CSRF token
\* scraped from the login config in its X-CSRF-TOKEN header.
C17_CsrfOnEveryRequest ==
    \A i \in DOMAIN sent :
        /\ CsrfOf(sent[i].headers) # Absent
        /\ Cached(login_config) => CsrfOf(sent[i].headers) = login_config[1].csrf

\* C17, amended: the login-config GET, which _login sends before it has a
\* token, carries no X-CSRF-TOKEN; every other request carries the token
\* scraped from the login config; and the header, once on the session, is
\* never removed or changed.
C17_CsrfAfterLoginConfig ==
    /\ [](\A i \in DOMAIN sent :
            IF sent[i].req = "GET idaaslogin"
            THEN i = 1 /\ CsrfOf(sent[i].headers) = Absent
            ELSE /\ Cached(login_config)
                 /\ CsrfOf(sent[i].headers) = login_config[1].csrf)
    /\ [][CsrfOf(headers) # Absent => CsrfOf(headers') = CsrfOf(headers)]_vars

\* A booking was made after two book() calls: the checkout POST still
\* carried the scraped token, the login-config GET had none.
C17_Witness ==
    /\ pc = "idle" /\ raised = "ok" /\ books = 2
    /\ CsrfOf(sent[1].headers) = Absent
    /\ sent[Len(sent)].req = "POST basket/checkout"
    /\ CsrfOf(sent[Len(sent)].headers) = "csrfB"
    /\ login_config[1].csrf = "csrfB"

====
